---------------------------- MODULE Spec2Model ----------------------------
(***************************************************************************)
(* Model of src/lib.rs: the GraphQL response receiver                      *)
(* (GraphQLResponseReciever::get_data, ::get_messages) and the async       *)
(* orchestration routine test_framework.                                   *)
(*                                                                         *)
(* Option<T> is modelled as a sequence of length 0 (None) or 1 (Some(x)).  *)
(* A Vec is a sequence.  A panic ends the run with a "fail_*" verdict; a   *)
(* normal return of test_framework is the verdict "pass".                  *)
(***************************************************************************)
EXTENDS Naturals, Sequences, FiniteSets

VARIABLES
    repo_data,     \* argument repo_data : Option<&mut [Value]>
    arg,           \* argument arg : Argument
    exp,           \* argument exp : Expected<V>
    pc,            \* position inside test_framework
    repoFut,       \* state of the future returned by repo_func
    execFut,       \* state of the future returned by exec_func
    bodyFut,       \* state of the body-read future (read_body / read_body_json)
    repo,          \* let repo : R            (Option: unset until resolved)
    execArgs,      \* what exec_func was called with (Option of <<repo, arg>>)
    response,      \* let response            (Option: unset until resolved)
    got_status,    \* let got_status          (Option)
    got,           \* let got : GraphQLResponseReciever<V>  (Option)
    msgs,          \* value returned by got.get_messages()  (Option)
    exp_err,       \* let exp_err             (Option)
    verdict,       \* "none" while running, "pass", or the panic that ended the run
    log,           \* history: the calls and checks performed so far, in order
    hookResponse,  \* what exec_func resolved to the first time (Option)
    run,           \* number of the current invocation of test_framework
    firstVerdict   \* verdict of the first invocation (Option)

vars == <<repo_data, arg, exp, pc, repoFut, execFut, bodyFut, repo, execArgs,
          response, got_status, got, msgs, exp_err, verdict, log,
          hookResponse, run, firstVerdict>>

---------------------------------------------------------------------------
(* Bounds of the model *)

\* longest error list in a response envelope and longest exp.errmsg
MaxErrs == 2

(* Option *)
None == <<>>
Some(x) == <<x>>
IsSome(o) == Len(o) = 1
Unwrap(o) == o[1]

RECURSIVE SeqsUpTo(_, _)
SeqsUpTo(S, n) ==
    IF n = 0 THEN {<<>>}
    ELSE LET shorter == SeqsUpTo(S, n - 1)
         IN  shorter \cup {Append(s, x) : s \in {t \in shorter : Len(t) = n - 1}, x \in S}

---------------------------------------------------------------------------
(* Values *)

\* StatusCode::OK
OK == 200

\* status codes a response or an expectation may carry
Statuses == {OK, 201, 400}

\* message strings
Msgs == {"a", "b"}

\* strings an expectation may name: the messages, and the text of an empty
\* JSON object
ExpMsgs == Msgs \cup {"{}"}

\* values of the schema's data type V
DataVals == {"V1", "V2"}

\* struct GraphQLResponseError
GraphQLResponseError == [message : Msgs]

\* struct GraphQLResponseReciever<V>
GraphQLResponseReciever ==
    [data : {None} \cup {Some(v) : v \in DataVals},
     errors : {None} \cup {Some(s) : s \in SeqsUpTo(GraphQLResponseError, MaxErrs)}]

\* struct Expected<V>
Expected ==
    [status : Statuses,
     errmsg : {None} \cup {Some(s) : s \in SeqsUpTo(ExpMsgs, MaxErrs)},
     data : {None} \cup {Some(v) : v \in DataVals}]

\* struct Argument (one opaque request)
Arguments == {[headers |-> <<>>, payload |-> "query"]}

\* repo_data: absent, or a slice of seed values
RepoData == {None, Some(<<"seed">>)}

(* Response bodies.  A body is a byte string; it is represented by what it  *)
(* spells: a JSON document with an optional "data" member ("Bad": a value   *)
(* whose shape is not that of V) and an optional "errors" array, a plain    *)
(* text, or bytes that are not valid UTF-8.                                 *)
JsonData == {"absent", "Bad"} \cup DataVals
Bodies ==
    [kind : {"json"}, data : JsonData,
     errors : {None} \cup {Some(s) : s \in SeqsUpTo(Msgs, MaxErrs)}]
    \cup [kind : {"text"}, text : Msgs]
    \cup {[kind |-> "binary"]}

\* ServiceResponse: status and body
Responses == [status : Statuses, body : Bodies]

---------------------------------------------------------------------------
(* Reading a body *)

RECURSIVE JoinErrors(_)
\* the JSON text of the elements of an "errors" array
JoinErrors(s) ==
    IF Len(s) = 0 THEN ""
    ELSE "{\"message\":\"" \o s[1] \o "\"}"
         \o (IF Len(s) > 1 THEN "," ELSE "") \o JoinErrors(Tail(s))

\* the text a JSON body spells
JsonText(b) ==
    LET d == IF b.data = "absent" THEN <<>> ELSE <<"\"data\":\"" \o b.data \o "\"">>
        e == IF IsSome(b.errors)
             THEN <<"\"errors\":[" \o JoinErrors(Unwrap(b.errors)) \o "]">>
             ELSE <<>>
        m == d \o e
    IN  "{" \o (IF Len(m) = 0 THEN ""
                ELSE IF Len(m) = 1 THEN m[1]
                ELSE m[1] \o "," \o m[2]) \o "}"

\* std::str::from_utf8 on the bytes of a body: Ok(text) or Err
from_utf8(b) ==
    CASE b.kind = "binary" -> [ok |-> FALSE]
      [] b.kind = "text"   -> [ok |-> TRUE, val |-> b.text]
      [] b.kind = "json"   -> [ok |-> TRUE, val |-> JsonText(b)]

\* test::read_body_json::<GraphQLResponseReciever<V>>: the derived Deserialize.
\* A missing member of an Option field is None; a "data" member that is not
\* a V, or a body that is not JSON, fails the decode (read_body_json panics).
read_body_json(b) ==
    IF b.kind # "json" \/ b.data = "Bad" THEN [ok |-> FALSE]
    ELSE [ok |-> TRUE,
          val |-> [data |-> IF b.data = "absent" THEN None ELSE Some(b.data),
                   errors |-> IF IsSome(b.errors)
                              THEN Some([i \in 1..Len(Unwrap(b.errors)) |->
                                            [message |-> Unwrap(b.errors)[i]]])
                              ELSE None]]

---------------------------------------------------------------------------
(* impl GraphQLResponseReciever *)

\* get_data with unwrap_or_default in place of unwrap
get_data_default(self) ==
    [ok |-> TRUE, val |-> IF IsSome(self.data) THEN Unwrap(self.data) ELSE "V1"]

\* get_data: self.data.as_ref().unwrap(); ok = FALSE is the panic
get_data(self) ==
    IF IsSome(self.data) THEN [ok |-> TRUE, val |-> Unwrap(self.data)]
    ELSE [ok |-> FALSE]

\* get_messages collecting in reverse order
get_messages_rev(self) ==
    IF IsSome(self.errors)
    THEN LET s == Unwrap(self.errors)
         IN  [i \in 1..Len(s) |-> s[Len(s) + 1 - i].message]
    ELSE <<>>

\* get_messages: the message of every error, in order; vec![] when errors is None
get_messages(self) ==
    IF IsSome(self.errors)
    THEN LET s == Unwrap(self.errors)
         IN  [i \in 1..Len(s) |-> s[i].message]
    ELSE <<>>

---------------------------------------------------------------------------
(* Hooks and futures *)

\* A future is "pending" until it resolves ("ready"); one that is "never"
\* does not resolve.
FutureFates == {"pending", "never"}

\* the repository the repo_func hook builds from its seed data
RepoBuilt(data) == [seed |-> data]

\* an await that gives up on a future that does not resolve
AwaitedOrTimedOut(fut) == fut \in {"ready", "never"}

\* .await: the caller continues only once the future has resolved
Awaited(fut) == fut = "ready"

\* exec_func called with a default repository
ArgsForExecDefault == <<RepoBuilt(None), arg>>

\* the arguments of exec_func(repo, arg)
ArgsForExec == <<Unwrap(repo), arg>>

---------------------------------------------------------------------------
(* The checks of test_framework *)

\* status comparison by class (2xx, 4xx) only
StatusSameClass(g, want) == g \div 100 = want \div 100

\* assert_eq!(got_status, exp.status, ...): the comparison
StatusMatches(g, want) == g = want

\* the success branch taken for every 2xx status
IsSuccess(status) == status \div 100 = 2

\* got_status == StatusCode::OK
IsOK(status) == status = OK

\* message check that treats an absent expectation as "expect no errors"
ErrmsgCheckStrict(e, errmsg) ==
    IF IsSome(errmsg)
    THEN [called |-> TRUE, ok |-> get_messages(e) = Unwrap(errmsg)]
    ELSE [called |-> FALSE, ok |-> ~IsSome(e.errors)]

\* match exp.errmsg { Some(errmsg) => assert_eq!(got.get_messages(), errmsg), None => {} }
ErrmsgCheck(e, errmsg) ==
    IF IsSome(errmsg)
    THEN [called |-> TRUE, ok |-> get_messages(e) = Unwrap(errmsg)]
    ELSE [called |-> FALSE, ok |-> TRUE]

\* data check that is skipped when the repository was given no seed data
DataCheckSeeded(e, data) ==
    IF IsSome(data) /\ IsSome(repo_data)
    THEN LET d == get_data(e)
         IN  [called |-> TRUE, panicked |-> ~d.ok, ok |-> d.ok /\ d.val = Unwrap(data)]
    ELSE [called |-> FALSE, panicked |-> FALSE, ok |-> TRUE]

\* match exp.data { Some(v) => assert_eq!(got.get_data(), &v), None => {} }
DataCheck(e, data) ==
    IF IsSome(data)
    THEN LET d == get_data(e)
         IN  [called |-> TRUE, panicked |-> ~d.ok, ok |-> d.ok /\ d.val = Unwrap(data)]
    ELSE [called |-> FALSE, panicked |-> FALSE, ok |-> TRUE]

\* expected error taken with first().cloned().unwrap_or_default()
exp_err_or_default(errmsg) ==
    IF IsSome(errmsg) /\ Len(Unwrap(errmsg)) > 0
    THEN [ok |-> TRUE, val |-> Unwrap(errmsg)[1]]
    ELSE [ok |-> TRUE, val |-> ""]

\* expected error taken from the last element
exp_err_last(errmsg) ==
    IF ~IsSome(errmsg) THEN [ok |-> FALSE, panic |-> "fail_expect"]
    ELSE IF Len(Unwrap(errmsg)) = 0 THEN [ok |-> FALSE, panic |-> "fail_index"]
    ELSE [ok |-> TRUE, val |-> Unwrap(errmsg)[Len(Unwrap(errmsg))]]

\* &exp.errmsg.expect("...")[0]: expect panics on None, [0] on an empty vector
exp_err_of(errmsg) ==
    IF ~IsSome(errmsg) THEN [ok |-> FALSE, panic |-> "fail_expect"]
    ELSE IF Len(Unwrap(errmsg)) = 0 THEN [ok |-> FALSE, panic |-> "fail_index"]
    ELSE [ok |-> TRUE, val |-> Unwrap(errmsg)[1]]

---------------------------------------------------------------------------
(* test_framework *)

inputs == <<repo_data, arg, exp>>
runs == <<run, firstVerdict>>

\* the state of a fresh invocation
Fresh ==
    /\ pc = "start"
    /\ repoFut = "none" /\ execFut = "none" /\ bodyFut = "none"
    /\ repo = None /\ execArgs = None /\ response = None
    /\ got_status = None /\ got = None /\ msgs = None /\ exp_err = None
    /\ verdict = "none"
    /\ log = <<>>

Init ==
    /\ repo_data \in RepoData
    /\ arg \in Arguments
    /\ exp \in Expected
    /\ Fresh
    /\ hookResponse = None
    /\ run = 1
    /\ firstVerdict = None

\* how often event e was logged
Count(e) == Cardinality({i \in DOMAIN log : log[i] = e})

\* a panic (or the normal return) ends the run
Finish(v) == verdict' = v /\ pc' = "done"

\* init_func();
InitFunc ==
    /\ pc = "start"
    /\ pc' = "repo_func"
    /\ log' = Append(log, "init_func")
    /\ UNCHANGED <<inputs, runs, repoFut, execFut, bodyFut, repo, execArgs, response,
                   got_status, got, msgs, exp_err, verdict, hookResponse>>

\* repo_func(repo_data): the call, returning a future
CallRepo ==
    /\ pc = "repo_func"
    /\ repoFut' \in FutureFates
    /\ pc' = "await_repo"
    /\ log' = Append(log, "repo_func")
    /\ UNCHANGED <<inputs, runs, execFut, bodyFut, repo, execArgs, response,
                   got_status, got, msgs, exp_err, verdict, hookResponse>>

\* the future of repo_func resolves to the repository
RepoResolve ==
    /\ pc = "await_repo" /\ repoFut = "pending"
    /\ repoFut' = "ready"
    /\ repo' = Some(RepoBuilt(repo_data))
    /\ log' = Append(log, "repo_ready")
    /\ UNCHANGED <<inputs, runs, pc, execFut, bodyFut, execArgs, response,
                   got_status, got, msgs, exp_err, verdict, hookResponse>>

\* let repo = (...).await; exec_func(repo, arg): the call, returning a future
CallExec ==
    /\ pc = "await_repo" /\ Awaited(repoFut)
    /\ execArgs' = Some(ArgsForExec)
    /\ execFut' \in FutureFates
    /\ pc' = "await_exec"
    /\ log' = Append(log, "exec_func")
    /\ UNCHANGED <<inputs, runs, repoFut, bodyFut, repo, response,
                   got_status, got, msgs, exp_err, verdict, hookResponse>>

\* the future of exec_func resolves to a ServiceResponse; a hook that
\* resolved before resolves to the same response again
ExecResolve ==
    /\ pc = "await_exec" /\ execFut = "pending"
    /\ \E r \in (IF IsSome(hookResponse) THEN {Unwrap(hookResponse)} ELSE Responses) :
          /\ response' = Some(r)
          /\ hookResponse' = Some(r)
    /\ execFut' = "ready"
    /\ log' = Append(log, "exec_ready")
    /\ UNCHANGED <<inputs, runs, pc, repoFut, bodyFut, repo, execArgs,
                   got_status, got, msgs, exp_err, verdict>>

\* let response = (...).await; let got_status = response.status();
\* assert_eq!(got_status, exp.status, "...", test::read_body(response).await):
\* the message arguments are evaluated only when the comparison fails
CheckStatus ==
    /\ pc = "await_exec" /\ Awaited(execFut)
    /\ LET s == Unwrap(response).status
       IN  /\ got_status' = Some(s)
           /\ IF StatusMatches(s, exp.status)
              THEN /\ pc' = IF IsOK(s) THEN "success" ELSE "error"
                   /\ log' = Append(log, "status_check")
                   /\ bodyFut' = bodyFut
              ELSE /\ pc' = "await_diag"
                   /\ log' = log \o <<"status_check", "read_body_diag">>
                   /\ bodyFut' \in FutureFates
    /\ UNCHANGED <<inputs, runs, repoFut, execFut, repo, execArgs, response,
                   got, msgs, exp_err, verdict, hookResponse>>

\* the future of test::read_body / test::read_body_json resolves
BodyResolve ==
    /\ pc \in {"await_diag", "await_json", "await_raw"} /\ bodyFut = "pending"
    /\ bodyFut' = "ready"
    /\ log' = Append(log, "body_ready")
    /\ UNCHANGED <<inputs, runs, pc, repoFut, execFut, repo, execArgs, response,
                   got_status, got, msgs, exp_err, verdict, hookResponse>>

\* a status mismatch that is reported but does not end the run
FailStatusSoft ==
    /\ pc = "await_diag" /\ Awaited(bodyFut)
    /\ pc' = IF IsOK(Unwrap(got_status)) THEN "success" ELSE "error"
    /\ bodyFut' = "none"
    /\ log' = Append(log, "status_reported")
    /\ UNCHANGED <<inputs, runs, repoFut, execFut, repo, execArgs, response,
                   got_status, got, msgs, exp_err, verdict, hookResponse>>

\* the status assertion panics once its message has been built
FailStatus ==
    /\ pc = "await_diag" /\ Awaited(bodyFut)
    /\ Finish("fail_status")
    /\ log' = Append(log, "panic")
    /\ UNCHANGED <<inputs, runs, repoFut, execFut, bodyFut, repo, execArgs, response,
                   got_status, got, msgs, exp_err, hookResponse>>

\* test::read_body_json(response): the call, returning a future
ReadJson ==
    /\ pc = "success"
    /\ bodyFut' \in FutureFates
    /\ pc' = "await_json"
    /\ log' = Append(log, "read_body_json")
    /\ UNCHANGED <<inputs, runs, repoFut, execFut, repo, execArgs, response,
                   got_status, got, msgs, exp_err, verdict, hookResponse>>

\* let got: GraphQLResponseReciever<V> = (...).await; read_body_json panics
\* when the body does not deserialize
DecodeJson ==
    /\ pc = "await_json" /\ Awaited(bodyFut)
    /\ LET d == read_body_json(Unwrap(response).body)
       IN  IF d.ok
           THEN /\ got' = Some(d.val)
                /\ pc' = "check_errmsg"
                /\ log' = Append(log, "decoded")
                /\ verdict' = verdict
           ELSE /\ Finish("fail_decode")
                /\ log' = Append(log, "panic")
                /\ got' = got
    /\ UNCHANGED <<inputs, runs, repoFut, execFut, bodyFut, repo, execArgs, response,
                   got_status, msgs, exp_err, hookResponse>>

\* match exp.errmsg { ... }
CheckErrmsg ==
    /\ pc = "check_errmsg"
    /\ LET c == ErrmsgCheck(Unwrap(got), exp.errmsg)
       IN  /\ msgs' = IF c.called THEN Some(get_messages(Unwrap(got))) ELSE None
           /\ IF c.ok
              THEN /\ pc' = "check_data"
                   /\ verdict' = verdict
                   /\ log' = log \o (IF c.called THEN <<"get_messages">> ELSE <<>>)
              ELSE /\ Finish("fail_errmsg")
                   /\ log' = log \o (IF c.called THEN <<"get_messages">> ELSE <<>>)
                                 \o <<"panic">>
    /\ UNCHANGED <<inputs, runs, repoFut, execFut, bodyFut, repo, execArgs, response,
                   got_status, got, exp_err, hookResponse>>

\* match exp.data { ... }, then the normal return
CheckData ==
    /\ pc = "check_data"
    /\ LET c == DataCheck(Unwrap(got), exp.data)
       IN  /\ Finish(IF c.panicked THEN "fail_get_data"
                     ELSE IF c.ok THEN "pass" ELSE "fail_data")
           /\ log' = log \o (IF c.called THEN <<"get_data">> ELSE <<>>)
                         \o (IF c.ok THEN <<"return">> ELSE <<"panic">>)
    /\ UNCHANGED <<inputs, runs, repoFut, execFut, bodyFut, repo, execArgs, response,
                   got_status, got, msgs, exp_err, hookResponse>>

\* let exp_err = &exp.errmsg.expect("...")[0]; test::read_body(response): the
\* call, returning a future
ErrorExpect ==
    /\ pc = "error"
    /\ LET e == exp_err_of(exp.errmsg)
       IN  IF e.ok
           THEN /\ exp_err' = Some(e.val)
                /\ bodyFut' \in FutureFates
                /\ pc' = "await_raw"
                /\ log' = log \o <<"expect_errmsg", "read_body_raw">>
                /\ verdict' = verdict
           ELSE /\ Finish(e.panic)
                /\ log' = log \o <<"expect_errmsg", "panic">>
                /\ UNCHANGED <<exp_err, bodyFut>>
    /\ UNCHANGED <<inputs, runs, repoFut, execFut, repo, execArgs, response,
                   got_status, got, msgs, hookResponse>>

\* the raw comparison with one retry: on a mismatch exec_func is dispatched
\* a second time before the run is allowed to fail
CompareRawRetry ==
    /\ pc = "await_raw" /\ Awaited(bodyFut)
    /\ LET t == from_utf8(Unwrap(response).body)
           same == t.ok /\ t.val = Unwrap(exp_err)
       IN  IF ~same /\ Count("exec_func") < 2
           THEN /\ pc' = "await_exec"
                /\ execFut' \in FutureFates
                /\ bodyFut' = "none"
                /\ log' = log \o <<"from_utf8", "exec_func">>
                /\ verdict' = verdict
           ELSE /\ Finish(IF ~t.ok THEN "fail_utf8"
                          ELSE IF same THEN "pass" ELSE "fail_err")
                /\ log' = log \o (IF same THEN <<"from_utf8", "return">>
                                  ELSE <<"from_utf8", "panic">>)
                /\ UNCHANGED <<execFut, bodyFut>>
    /\ UNCHANGED <<inputs, runs, repoFut, repo, execArgs, response,
                   got_status, got, msgs, exp_err, hookResponse>>

\* let got_bytes = (...).await; let got_err = from_utf8(&got_bytes).unwrap();
\* assert_eq!(got_err, exp_err); then the normal return
CompareRaw ==
    /\ pc = "await_raw" /\ Awaited(bodyFut)
    /\ LET t == from_utf8(Unwrap(response).body)
       IN  /\ Finish(IF ~t.ok THEN "fail_utf8"
                     ELSE IF t.val = Unwrap(exp_err) THEN "pass" ELSE "fail_err")
           /\ log' = log \o (IF t.ok /\ t.val = Unwrap(exp_err)
                             THEN <<"from_utf8", "return">> ELSE <<"from_utf8", "panic">>)
    /\ UNCHANGED <<inputs, runs, repoFut, execFut, bodyFut, repo, execArgs, response,
                   got_status, got, msgs, exp_err, hookResponse>>

\* a second invocation of test_framework with the same exp and the same
\* hooks, once the first has ended
Restart ==
    /\ pc = "done" /\ run = 1
    /\ run' = 2
    /\ firstVerdict' = Some(verdict)
    /\ repo_data' \in RepoData
    /\ pc' = "start"
    /\ repoFut' = "none" /\ execFut' = "none" /\ bodyFut' = "none"
    /\ repo' = None /\ execArgs' = None /\ response' = None
    /\ got_status' = None /\ got' = None /\ msgs' = None /\ exp_err' = None
    /\ verdict' = "none"
    /\ log' = <<>>
    /\ UNCHANGED <<arg, exp, hookResponse>>

Next ==
    \/ InitFunc
    \/ CallRepo
    \/ RepoResolve
    \/ CallExec
    \/ ExecResolve
    \/ CheckStatus
    \/ BodyResolve
    \/ FailStatus
    \/ ReadJson
    \/ DecodeJson
    \/ CheckErrmsg
    \/ CheckData
    \/ ErrorExpect
    \/ CompareRaw

\* one invocation of test_framework
Spec == Init /\ [][Next]_vars

\* one invocation, with every enabled step eventually taken: the executor
\* keeps polling the future of test_framework
FairSpec == Init /\ [][Next]_vars /\ WF_vars(Next)

NextTwice == Next \/ Restart

\* two invocations in a row
SpecTwice == Init /\ [][NextTwice]_vars

---------------------------------------------------------------------------
(* Properties *)

\* the first position of event e in the log, 0 when it is not there
Pos(e) == IF Count(e) = 0 THEN 0 ELSE CHOOSE i \in DOMAIN log :
              log[i] = e /\ \A j \in DOMAIN log : log[j] = e => i <= j

\* e2 was logged only after e1
Before(e1, e2) == Pos(e2) > 0 => (Pos(e1) > 0 /\ Pos(e1) < Pos(e2))

\* the three places that read the body
ReadEvents == {"read_body_diag", "read_body_json", "read_body_raw"}

\* number of body reads so far
ReadCount == Cardinality({i \in DOMAIN log : log[i] \in ReadEvents})

\* every check made on the response
CheckEvents == ReadEvents \cup {"status_check", "expect_errmsg", "get_messages",
                                "get_data", "from_utf8"}

\* the checks of the two branches that follow the status assertion
BranchEvents == {"read_body_json", "get_messages", "get_data", "expect_errmsg",
                 "read_body_raw", "from_utf8"}

StatusKnown == IsSome(got_status)
StatusAgrees == StatusKnown /\ Unwrap(got_status) = exp.status
Body == Unwrap(response).body

\* the message list of an envelope, as the GraphQL response defines it
EnvelopeMessages(e) ==
    IF e.errors = None THEN <<>>
    ELSE [i \in 1..Len(Unwrap(e.errors)) |-> Unwrap(e.errors)[i].message]

\* C1: the hooks run in the order init_func, repo_func, exec_func, each at
\* most once; repo_func is called after init_func returned, exec_func after
\* the repository future resolved and with exactly that repository; no check
\* on the response precedes the resolution of exec_func's future.
C1_HookOrder ==
    /\ Count("init_func") <= 1 /\ Count("repo_func") <= 1 /\ Count("exec_func") <= 1
    /\ Before("init_func", "repo_func")
    /\ Before("repo_func", "repo_ready")
    /\ Before("repo_ready", "exec_func")
    /\ Before("exec_func", "exec_ready")
    /\ IsSome(execArgs) =>
          /\ IsSome(repo)
          /\ Unwrap(execArgs) = <<Unwrap(repo), arg>>
          /\ Unwrap(repo) = RepoBuilt(repo_data)
    /\ \A e \in CheckEvents : Before("exec_ready", e)

C1_Witness ==
    /\ pc = "done" /\ verdict = "pass"
    /\ IsSome(repo_data)
    /\ Unwrap(execArgs)[1] = RepoBuilt(repo_data)

\* C2: when the response status differs from exp.status the run ends at the
\* status assertion: the body is read once, for the message, and no check of
\* the success or error branch is made, whatever exp.errmsg and exp.data are.
C2_StatusMismatch ==
    (StatusKnown /\ ~StatusAgrees) =>
        /\ pc \in {"await_diag", "done"}
        /\ verdict = IF pc = "done" THEN "fail_status" ELSE "none"
        /\ Count("read_body_diag") = 1 /\ ReadCount = 1
        /\ \A e \in BranchEvents : Count(e) = 0
        /\ got = None /\ msgs = None /\ exp_err = None

C2_Witness ==
    /\ verdict = "fail_status"
    /\ IsSome(exp.errmsg) /\ IsSome(exp.data)
    /\ Unwrap(got_status) = OK

\* the condition under which a 200 OK run passes
PassesOK ==
    LET d == read_body_json(Body)
    IN  /\ d.ok
        /\ exp.errmsg = None \/ EnvelopeMessages(d.val) = Unwrap(exp.errmsg)
        /\ exp.data = None \/ (d.val.data # None /\ Unwrap(d.val.data) = Unwrap(exp.data))

\* C3: a run whose status is the expected 200 OK passes exactly when the body
\* decodes as an envelope, exp.errmsg is absent or equals the envelope's
\* message list, and exp.data is absent or equals the envelope's present
\* data; in every other case it fails.
C3_SuccessPath ==
    (pc = "done" /\ StatusAgrees /\ Unwrap(got_status) = OK) =>
        /\ verdict # "none"
        /\ verdict = "pass" <=> PassesOK

C3_Witness ==
    /\ verdict = "pass" /\ Unwrap(got_status) = OK
    /\ exp.errmsg = None /\ IsSome(exp.data)
    /\ IsSome(Unwrap(got).errors) /\ Len(Unwrap(Unwrap(got).errors)) = 2

\* exp.errmsg is absent or empty
NoExpectedMessage == exp.errmsg = None \/ Len(Unwrap(exp.errmsg)) = 0

\* C4: a run whose status is the expected one and not 200 OK, with exp.errmsg
\* absent or empty, panics before any body read: no read occurs in that run.
C4_MissingErrmsg ==
    (StatusAgrees /\ Unwrap(got_status) # OK /\ NoExpectedMessage) =>
        /\ pc \in {"error", "done"}
        /\ pc = "done" => verdict = (IF exp.errmsg = None THEN "fail_expect"
                                     ELSE "fail_index")
        /\ ReadCount = 0
        /\ bodyFut = "none"

C4_Witness ==
    /\ verdict = "fail_index"
    /\ Unwrap(got_status) = 400
    /\ exp.errmsg = Some(<<>>)

\* C5: a run whose status is the expected one and not 200 OK (201 included),
\* with exp.errmsg non-empty, passes exactly when the body is valid UTF-8 text
\* equal to the first element of exp.errmsg; the body is never JSON-decoded,
\* exp.data is never consulted and later elements of exp.errmsg play no part.
C5_ErrorPath ==
    (StatusAgrees /\ Unwrap(got_status) # OK /\ ~NoExpectedMessage) =>
        /\ pc = "done" =>
              /\ verdict # "none"
              /\ verdict = "pass" <=>
                    /\ from_utf8(Body).ok
                    /\ from_utf8(Body).val = Unwrap(exp.errmsg)[1]
        /\ Count("read_body_json") = 0 /\ got = None
        /\ Count("get_data") = 0 /\ Count("get_messages") = 0
        /\ exp_err \in {None, Some(Unwrap(exp.errmsg)[1])}

C5_Witness ==
    /\ verdict = "pass"
    /\ Unwrap(got_status) = 201
    /\ Len(Unwrap(exp.errmsg)) = 2 /\ Unwrap(exp.errmsg)[1] # Unwrap(exp.errmsg)[2]
    /\ IsSome(exp.data)
    /\ Body.kind = "json"

\* C6: the body is read at most once in a run, at one of the three read
\* sites, and a status check that succeeds reads no body.
C6_SingleRead ==
    /\ ReadCount <= 1
    /\ StatusAgrees => Count("read_body_diag") = 0
    /\ (StatusKnown /\ ~StatusAgrees) =>
          Count("read_body_json") = 0 /\ Count("read_body_raw") = 0

C6_Witness ==
    /\ verdict = "fail_decode"
    /\ ReadCount = 1 /\ Count("read_body_json") = 1

\* C7: get_messages returns the empty sequence when errors is absent, and
\* otherwise one message per error, the i-th being the i-th error's message;
\* the envelope is what was decoded, before and after the call.
C7_GetMessages ==
    /\ Count("get_messages") > 0 => IsSome(msgs)
    /\ IsSome(msgs) =>
          LET e == Unwrap(got)
              m == Unwrap(msgs)
          IN  /\ e.errors = None => m = <<>>
              /\ e.errors # None =>
                    /\ Len(m) = Len(Unwrap(e.errors))
                    /\ \A i \in 1..Len(m) : m[i] = Unwrap(e.errors)[i].message
    /\ IsSome(got) => Unwrap(got) = read_body_json(Body).val

C7_Witness ==
    /\ msgs = Some(<<"a", "b">>)
    /\ Unwrap(got).errors = Some(<<[message |-> "a"], [message |-> "b"]>>)

\* C8: get_data returns the present data and panics on absent data; so a
\* 200 OK run that expects data and decodes an envelope without data fails,
\* and get_data is not called when exp.data is absent.
C8_GetData ==
    /\ Count("get_data") > 0 => IsSome(exp.data)
    /\ (pc = "done" /\ Count("get_data") > 0) =>
          IF Unwrap(got).data = None
          THEN verdict = "fail_get_data"
          ELSE verdict = (IF Unwrap(Unwrap(got).data) = Unwrap(exp.data)
                          THEN "pass" ELSE "fail_data")
    /\ (pc = "done" /\ IsSome(got) /\ IsSome(exp.data) /\ Unwrap(got).data = None) =>
          verdict \in {"fail_errmsg", "fail_get_data"}

C8_Witness ==
    /\ verdict = "fail_get_data"
    /\ Unwrap(got).data = None /\ exp.data = Some("V1")

AnyNever == repoFut = "never" \/ execFut = "never" \/ bodyFut = "never"

\* C10: a run reaches a verdict exactly when every future it awaits resolves.
\* If repo_func's future never resolves, exec_func is not called and there is
\* no verdict; if exec_func's never resolves, no check is made; otherwise the
\* run ends with a pass or a failure. No hook or read is tried twice.
C10_Termination ==
    /\ [](AnyNever => verdict = "none" /\ pc # "done")
    /\ [](repoFut = "never" => execArgs = None /\ Count("exec_func") = 0)
    /\ [](execFut = "never" => \A e \in CheckEvents : Count(e) = 0)
    /\ [](/\ Count("init_func") <= 1 /\ Count("repo_func") <= 1
          /\ Count("exec_func") <= 1 /\ ReadCount <= 1)
    /\ <>(AnyNever \/ (pc = "done" /\ verdict # "none"))
    /\ [][AnyNever => UNCHANGED <<pc, repoFut, execFut, bodyFut, verdict>>]_vars

C10_Witness ==
    /\ execFut = "never" /\ pc = "await_exec"
    /\ repoFut = "ready"

=============================================================================
